---- MODULE Spec2Model ----
(***************************************************************************)
(* lobsters-graph: the record store (scraper/db.py), the invitation-tree   *)
(* reconstruction (scraper/parse_tree.py), the enrichment query, merge and *)
(* batch (scraper/enrich.py) and the profile scraper (scraper/scrape.py),  *)
(* as state machines.                                                      *)
(*                                                                         *)
(* Values.  A nullable column or Python Optional is NULL (the empty tuple) *)
(* or a 1-tuple <<v>> holding the value.  A string is a sequence of tokens *)
(* (TLA+ strings); "" is the empty sequence, so the SQL value '' is        *)
(* << <<>> >>, distinct from NULL.  An integer column holds <<n>>.          *)
(***************************************************************************)
EXTENDS Integers, Sequences, FiniteSets, TLC

VARIABLES
    users,        \* table users: username -> row (a function on UserFields)
    enrichment,   \* table enrichment: a set of rows, each with its id
    nextId,       \* the AUTOINCREMENT counter of table enrichment
    lastSaved,    \* history: username -> the dict of its last save_enrichment
    prevEnrichment, \* history: table enrichment before the last save_enrichment
    eligible,     \* the list main() holds after get_users_for_enrichment()
    calls,        \* history: the number of store calls made so far
    prevUsers,    \* history: table users before the last upsert_user
    lastCall,     \* history: the last upsert_user call, [username, args]
    doc,          \* parse_tree.py: the <li> elements of users.html, in document order
    facts,        \* parse_tree.py main(): users = parse_users_tree(html)
    tpc,          \* parse_tree.py main(): where it stands
    idx,          \* parse_tree.py main(): the position of the insert loop
    pass,         \* the number of the ingestion under way (re-ingestion is 2)
    firstPass,    \* history: table users at the end of the first ingestion
    quser,        \* enrich.py: the user dict handed to build_search_query
    query,        \* enrich.py: what build_search_query returned
    qpc,          \* enrich.py: whether build_search_query has run
    response,     \* enrich.py: what exa_client.search does: raises, or results
    enr,          \* enrich.py: what enrich_user returned
    epc,          \* enrich.py: whether enrich_user has run
    page,         \* scrape.py: the profile document handed to parse_user_profile
    pdata,        \* scrape.py: what parse_user_profile returned
    ppc,          \* scrape.py: whether parse_user_profile has run
    attempt,      \* scrape.py fetch_with_retry: the loop variable
    seen,         \* history: what requests.get did at each attempt so far
    backoffs,     \* history: the seconds of each back-off sleep so far
    fret,         \* scrape.py fetch_with_retry: the value returned
    fpc,          \* scrape.py fetch_with_retry: where it stands
    usernames,    \* scrape.py main(): the list read from users_page.html
    spos,         \* scrape.py main(): the position of the loop
    run,          \* the number of the run of scrape.py under way
    lastIter,     \* history: what the last turn of the scrape loop did
    spc,          \* scrape.py main(): where it stands
    bargs,        \* enrich.py main(): max_users, dry_run, EXA_API_KEY
    bpos,         \* enrich.py main(): the position of the loop
    attempted,    \* history: the users the enrichment loop has handled
    counts,       \* enrich.py main(): enriched_count, skipped_count
    bpc           \* enrich.py main(): where it stands

storeVars == <<users, enrichment, nextId, lastSaved, prevEnrichment, eligible>>

histVars == <<calls, prevUsers, lastCall>>

treeVars == <<doc, facts, tpc, idx, pass, firstPass>>

queryVars == <<quser, query, qpc>>

enrichVars == <<response, enr, epc>>

profileVars == <<page, pdata, ppc>>

fetchVars == <<attempt, seen, backoffs, fret, fpc>>

scrapeVars == <<usernames, spos, run, lastIter, spc>>

batchVars == <<bargs, bpos, attempted, counts, bpc>>

moreVars == <<profileVars, fetchVars, scrapeVars, batchVars>>

vars == <<storeVars, histVars, treeVars, queryVars, enrichVars, moreVars>>

NULL == <<>>

Some(v) == <<v>>

\* Python truthiness of an Optional string / Optional int.
TruthyStr(x) == x # NULL /\ x[1] # <<>>

Max(S) == CHOOSE x \in S : \A y \in S : x >= y

Min(S) == CHOOSE x \in S : \A y \in S : x =< y

-----------------------------------------------------------------------------
(* Bounds of the store model. *)

\* Distinct non-null values a column takes in the inputs.
NumVals == 2

\* Store calls in one behaviour.
MaxCalls == 3

NamePool == <<"alice", "bob", "carol", "dave">>

TextPool == <<"", "t2", "t3", "t4">>

Usernames == {"alice", "bob"}

-----------------------------------------------------------------------------
(* db.py: table users and upsert_user. *)

UserFields ==
    {"karma", "about", "created_at", "invited_by_username",
     "github_username", "twitter_username", "website", "scraped_at"}

\* The k-th input value of column f: karma is an integer, invited_by_username
\* a username, the other columns text (the first text value is '').
FieldVal(f, k) ==
    IF f = "karma" THEN Some(k - 1)
    ELSE IF f = "invited_by_username" THEN Some(NamePool[k])
    ELSE IF k = 1 THEN Some(<<>>)
    ELSE Some(<<TextPool[k]>>)

\* The keyword arguments of a call: the fields of S are given, the rest
\* default to None.
Args(S, k) == [f \in UserFields |-> IF f \in S THEN FieldVal(f, k) ELSE NULL]

\* The shapes of the calls the repository makes.
ArgShapes ==
    { {},                                   \* scrape.py: upsert_user(username=username)
      {"karma"},                            \* parse_tree.py: a root of the tree
      {"karma", "invited_by_username"},     \* parse_tree.py: an invited user
      UserFields \ {"karma", "invited_by_username"},   \* scrape.py: a profile
      UserFields }

UserArgs == { Args(S, k) : S \in ArgShapes, k \in 1..NumVals }

\* SQL COALESCE(a, b).
Coalesce(a, b) == IF a # NULL THEN a ELSE b

OnConflictKeepStored(row, excluded) ==
    [f \in UserFields |-> Coalesce(row[f], excluded[f])]

OnConflictReplace(row, excluded) == excluded

\* ON CONFLICT(username) DO UPDATE SET f = COALESCE(excluded.f, f), for
\* every column f.
OnConflictUpdate(row, excluded) ==
    [f \in UserFields |-> Coalesce(excluded[f], row[f])]

UpsertUserSelfInviter(table, username, args) ==
    IF username \in DOMAIN table
    THEN [table EXCEPT ![username] =
            [f \in UserFields |->
                IF f = "invited_by_username"
                THEN Coalesce(args[f], Some(username))
                ELSE Coalesce(args[f], table[username][f])]]
    ELSE [u \in DOMAIN table \cup {username} |->
            IF u = username THEN args ELSE table[u]]

\* The table after upsert_user(username, **args): INSERT, or on a conflict
\* on the UNIQUE username the update of the stored row.
UpsertUser(table, username, args) ==
    IF username \in DOMAIN table
    THEN [table EXCEPT ![username] = OnConflictUpdate(table[username], args)]
    ELSE [u \in DOMAIN table \cup {username} |->
            IF u = username THEN args ELSE table[u]]

upsert_user(username, args) ==
    /\ users' = UpsertUser(users, username, args)
    /\ calls' = calls + 1
    /\ prevUsers' = users
    /\ lastCall' = [username |-> username, args |-> args]

NoCall == [username |-> "", args |-> Args({}, 1)]

StoreInit ==
    /\ users = <<>>
    /\ enrichment = {}
    /\ nextId = 1
    /\ lastSaved = <<>>
    /\ prevEnrichment = {}
    /\ eligible = <<>>
    /\ calls = 0
    /\ prevUsers = <<>>
    /\ lastCall = NoCall

-----------------------------------------------------------------------------
(* db.py: table enrichment; enrich.py: save_enrichment;                    *)
(* db.py: get_users_for_enrichment.                                        *)

EnrichFields ==
    {"full_name", "linkedin_url", "github_url", "twitter_url", "company",
     "title", "location", "bio", "other_urls", "raw_response", "enriched_at"}

EnrichPool == <<"e1", "e2">>

\* What enrich_user always sets, and what it sets from the candidates.
EnrichShapes ==
    { {"other_urls", "raw_response", "enriched_at"},
      {"other_urls", "raw_response", "enriched_at", "full_name", "linkedin_url"},
      {"other_urls", "raw_response", "enriched_at", "github_url", "twitter_url"} }

\* The dicts handed to save_enrichment, less the username.
EnrichArgs ==
    { [f \in EnrichFields |-> IF f \in S THEN Some(<<EnrichPool[k]>>) ELSE NULL] :
        S \in EnrichShapes, k \in 1..2 }

HasEnrichment(table, username) == \E r \in table : r.username = username

SaveEnrichmentMerge(table, id, username, cols) ==
    IF HasEnrichment(table, username)
    THEN { IF r.username = username
           THEN [r EXCEPT !.cols = [f \in EnrichFields |-> Coalesce(cols[f], r.cols[f])]]
           ELSE r : r \in table }
    ELSE table \cup {[id |-> id, username |-> username, cols |-> cols]}

\* The table after save_enrichment: INSERT, or on a conflict on the UNIQUE
\* username every column of the stored row set to the new value.
SaveEnrichment(table, id, username, cols) ==
    IF HasEnrichment(table, username)
    THEN { IF r.username = username THEN [r EXCEPT !.cols = cols] ELSE r :
             r \in table }
    ELSE table \cup {[id |-> id, username |-> username, cols |-> cols]}

save_enrichment(username, cols) ==
    /\ enrichment' = SaveEnrichment(enrichment, nextId, username, cols)
    /\ nextId' = IF HasEnrichment(enrichment, username) THEN nextId ELSE nextId + 1
    /\ prevEnrichment' = enrichment
    /\ lastSaved' = [u \in DOMAIN lastSaved \cup {username} |->
                        IF u = username THEN cols ELSE lastSaved[u]]
    /\ calls' = calls + 1

\* users u LEFT JOIN enrichment e ON u.username = e.username: a row for
\* every pair that matches, and for a user with no match one row with e.id
\* NULL.
LeftJoin(utable, etable) ==
    { [username |-> r.username, eid |-> Some(r.id)] :
        r \in { x \in etable : x.username \in DOMAIN utable } }
    \cup
    { [username |-> u, eid |-> NULL] :
        u \in { v \in DOMAIN utable : ~ \E x \in etable : x.username = v } }

\* (u.about IS NOT NULL AND u.about != '' OR u.github_username IS NOT NULL
\*  OR u.twitter_username IS NOT NULL OR u.website IS NOT NULL)
HasSignal(row) ==
    \/ (row["about"] # NULL /\ row["about"] # Some(<<>>))
    \/ row["github_username"] # NULL
    \/ row["twitter_username"] # NULL
    \/ row["website"] # NULL

EligibleSetNoIdFilter(utable, etable) ==
    { j.username : j \in { x \in LeftJoin(utable, etable) :
                              HasSignal(utable[x.username]) } }

\* The usernames of the rows get_users_for_enrichment selects.
EligibleSet(utable, etable) ==
    { j.username : j \in { x \in LeftJoin(utable, etable) :
                              x.eid = NULL /\ HasSignal(utable[x.username]) } }

\* ORDER BY u.karma DESC (NULL sorts below every number; ties in any order).
KarmaKey(row) == IF row["karma"] = NULL THEN 0 - 1 ELSE row["karma"][1]

KarmaDescending(utable, seq) ==
    \A i, j \in 1..Len(seq) :
        i < j => KarmaKey(utable[seq[i]]) >= KarmaKey(utable[seq[j]])

\* The lists get_users_for_enrichment may return.
EligibleLists(utable, etable) ==
    LET S == EligibleSet(utable, etable)
    IN  { seq \in [1..Cardinality(S) -> S] :
            /\ \A i, j \in 1..Cardinality(S) : i # j => seq[i] # seq[j]
            /\ KarmaDescending(utable, seq) }

\* main(): users = get_users_for_enrichment()
get_users_for_enrichment ==
    /\ eligible' \in EligibleLists(users, enrichment)
    /\ calls' = calls + 1

-----------------------------------------------------------------------------
(* enrich.py: build_search_query.  Here a string is the sequence of its    *)
(* characters, so that len, slicing, lower and the substring test "x in s" *)
(* are those of Python.                                                    *)

StrGithubPrefix ==
    <<"g", "i", "t", "h", "u", "b", ".", "c", "o", "m", "/">>

StrAt ==
    <<"@">>

StrSpace ==
    <<" ">>

StrQualifier ==
    <<" ", "s", "o", "f", "t", "w", "a", "r", "e", " ", "e", "n", "g", "i",
      "n", "e", "e", "r", " ", "d", "e", "v", "e", "l", "o", "p", "e", "r">>

StrGithub ==
    <<"g", "i", "t", "h", "u", "b">>

StrTwitter ==
    <<"t", "w", "i", "t", "t", "e", "r">>

StrAlice ==
    <<"a", "l", "i", "c", "e">>

StrBob ==
    <<"b", "o", "b">>

StrSite ==
    <<"h", "t", "t", "p", "s", ":", "/", "/", "a", "n", "n", ".", "d", "e",
      "v">>

StrSiteOnGithub ==
    <<"h", "t", "t", "p", "s", ":", "/", "/", "A", "n", "n", ".", "G", "i",
      "t", "H", "u", "b", ".", "i", "o">>

StrBioEmail ==
    <<"w", "r", "i", "t", "e", " ", "t", "o", " ", "a", "n", "n", "@", "a",
      "n", "n", ".", "d", "e", "v", "\n", "a", "n", "y", " ", "t", "i",
      "m", "e">>

UpperChars ==
    <<"A", "B", "C", "D", "E", "F", "G", "H", "I", "J", "K", "L", "M",
      "N", "O", "P", "Q", "R", "S", "T", "U", "V", "W", "X", "Y", "Z">>

LowerChars ==
    <<"a", "b", "c", "d", "e", "f", "g", "h", "i", "j", "k", "l", "m",
      "n", "o", "p", "q", "r", "s", "t", "u", "v", "w", "x", "y", "z">>

\* str.lower()
Lower(str) ==
    [i \in 1..Len(str) |->
        IF \E k \in 1..Len(UpperChars) : UpperChars[k] = str[i]
        THEN LowerChars[CHOOSE k \in 1..Len(UpperChars) : UpperChars[k] = str[i]]
        ELSE str[i]]

\* pat in str
Contains(str, pat) ==
    \E i \in 1..(Len(str) - Len(pat) + 1) : SubSeq(str, i, i + Len(pat) - 1) = pat

\* str[:n]
Prefix(str, n) == SubSeq(str, 1, IF Len(str) < n THEN Len(str) ELSE n)

\* str.replace("\n", " ")
FlattenNewlines(str) == [i \in 1..Len(str) |-> IF str[i] = "\n" THEN " " ELSE str[i]]

\* " ".join(parts)
RECURSIVE JoinWith(_, _)
JoinWith(sep, parts) ==
    IF parts = <<>> THEN <<>>
    ELSE IF Len(parts) = 1 THEN parts[1]
    ELSE parts[1] \o sep \o JoinWith(sep, Tail(parts))

\* A bio of n letters.
Letters(n) == [i \in 1..n |-> "b"]

\* len(about) < 20
MinBioLen == 20

\* about[:100]
BioSnippetLen == 100

\* parts after the three "if user[...]: parts.append(...)".
LinkParts(user) ==
    (IF TruthyStr(user.github_username)
     THEN <<StrGithubPrefix \o user.github_username[1]>> ELSE <<>>)
    \o (IF TruthyStr(user.twitter_username)
        THEN <<StrAt \o user.twitter_username[1]>> ELSE <<>>)
    \o (IF TruthyStr(user.website) THEN <<user.website[1]>> ELSE <<>>)

\* about = user["about"] or ""
AboutOrEmpty(user) == IF TruthyStr(user.about) THEN user.about[1] ELSE <<>>

\* parts at "query = ' '.join(parts)"; NULL where the function has returned
\* None before.
QueryParts(user) ==
    IF LinkParts(user) # <<>> THEN Some(LinkParts(user))
    ELSE IF Len(AboutOrEmpty(user)) < MinBioLen THEN NULL
    ELSE Some(<< user.username \o StrSpace
                 \o FlattenNewlines(Prefix(AboutOrEmpty(user), BioSnippetLen)) >>)

HasMarker(q) ==
    \E x \in {StrGithub, StrTwitter, StrAt} : Contains(Lower(q), x)

BuildSearchQueryAlwaysQualify(user) ==
    LET parts == QueryParts(user)
    IN  IF parts = NULL THEN NULL
        ELSE IF Len(parts[1]) = 1
             THEN Some(JoinWith(StrSpace, parts[1]) \o StrQualifier)
             ELSE Some(JoinWith(StrSpace, parts[1]))

\* build_search_query(user): None, or the query.
BuildSearchQuery(user) ==
    LET parts == QueryParts(user)
    IN  IF parts = NULL THEN NULL
        ELSE LET q == JoinWith(StrSpace, parts[1])
             IN  IF Len(parts[1]) = 1 /\ ~ HasMarker(q)
                 THEN Some(q \o StrQualifier)
                 ELSE Some(q)

build_search_query ==
    /\ qpc = "start"
    /\ query' = BuildSearchQuery(quser)
    /\ qpc' = "built"
    /\ UNCHANGED quser

QueryIdle ==
    /\ quser = <<>>
    /\ query = NULL
    /\ qpc = "idle"

\* The user rows build_search_query is given.
QueryUsers ==
    [ username : {StrAlice},
      about : {NULL, Some(<<>>), Some(Letters(15)), Some(Letters(MinBioLen)),
               Some(StrBioEmail), Some(Letters(BioSnippetLen + 10))},
      github_username : {NULL, Some(<<>>), Some(StrAlice)},
      twitter_username : {NULL, Some(StrBob)},
      website : {NULL, Some(StrSite), Some(StrSiteOnGithub)} ]

-----------------------------------------------------------------------------
(* enrich.py: enrich_user. *)

StrLinkedinIn ==
    <<"l", "i", "n", "k", "e", "d", "i", "n", ".", "c", "o", "m", "/", "i",
      "n", "/">>

StrTwitterCom ==
    <<"t", "w", "i", "t", "t", "e", "r", ".", "c", "o", "m", "/">>

StrXCom ==
    <<"x", ".", "c", "o", "m", "/">>

StrDash ==
    <<" ", "-", " ">>

StrCommaSpace ==
    <<",", " ">>

StrQuote ==
    <<"\"">>

StrOpen ==
    <<"[">>

StrClose ==
    <<"]">>

StrNow ==
    <<"2", "0", "2", "6", "-", "0", "1", "-", "0", "1", "T", "0", "0", ":",
      "0", "0", ":", "0", "0">>

UrlLinkedinAnn ==
    <<"h", "t", "t", "p", "s", ":", "/", "/", "w", "w", "w", ".", "l", "i",
      "n", "k", "e", "d", "i", "n", ".", "c", "o", "m", "/", "i", "n", "/",
      "a", "n", "n">>

UrlLinkedinBea ==
    <<"h", "t", "t", "p", "s", ":", "/", "/", "L", "i", "n", "k", "e", "d",
      "I", "n", ".", "c", "o", "m", "/", "i", "n", "/", "b", "e", "a">>

UrlGithubAnn ==
    <<"h", "t", "t", "p", "s", ":", "/", "/", "g", "i", "t", "h", "u", "b",
      ".", "c", "o", "m", "/", "a", "n", "n">>

UrlTwitterAnn ==
    <<"h", "t", "t", "p", "s", ":", "/", "/", "t", "w", "i", "t", "t", "e",
      "r", ".", "c", "o", "m", "/", "a", "n", "n">>

UrlXAnn ==
    <<"h", "t", "t", "p", "s", ":", "/", "/", "x", ".", "c", "o", "m", "/",
      "a", "n", "n">>

UrlSite ==
    <<"h", "t", "t", "p", "s", ":", "/", "/", "a", "n", "n", ".", "d", "e",
      "v", "/", "a", "b", "o", "u", "t">>

TitleAnn ==
    <<"A", "n", "n", " ", "L", "e", "e", " ", "-", " ", "E", "n", "g", "i",
      "n", "e", "e", "r", " ", "-", " ", "A", "c", "m", "e", " ", "|", " ",
      "L", "i", "n", "k", "e", "d", "I", "n">>

TitleBea ==
    <<"B", "e", "a", " ", "R", "o", "y", " ", " ", "-", " ", "C", "T", "O">>

TitlePlain ==
    <<"A", "n", "n">>

\* Candidates in one response (the code asks for num_results=5).
MaxResults == 3

\* The records exa_client.search may return: url and title.
Candidates ==
    { [url |-> UrlLinkedinAnn, title |-> Some(TitleAnn)],
      [url |-> UrlLinkedinBea, title |-> Some(TitleBea)],
      [url |-> UrlGithubAnn, title |-> NULL],
      [url |-> UrlTwitterAnn, title |-> Some(TitlePlain)],
      [url |-> UrlXAnn, title |-> Some(TitlePlain)],
      [url |-> UrlSite, title |-> NULL] }

\* What the call of exa_client.search does.
Responses ==
    { [raises |-> TRUE, results |-> <<>>] } \cup
    UNION { { [raises |-> FALSE, results |-> r] : r \in [1..n -> Candidates] } :
              n \in 0..MaxResults }

\* title.split(" - ")[0]
FirstSegment(str, sep) ==
    IF ~ Contains(str, sep) THEN str
    ELSE SubSeq(str, 1,
                Min({ i \in 1..(Len(str) - Len(sep) + 1) :
                        SubSeq(str, i, i + Len(sep) - 1) = sep }) - 1)

IsSpace(c) == c \in {" ", "\n", "\t", "\r"}

\* str.strip()
Strip(str) ==
    LET keep == { i \in 1..Len(str) : ~ IsSpace(str[i]) }
    IN  IF keep = {} THEN <<>> ELSE SubSeq(str, Min(keep), Max(keep))

RECURSIVE Quoted(_)
Quoted(list) ==
    IF list = <<>> THEN <<>>
    ELSE <<StrQuote \o Head(list) \o StrQuote>> \o Quoted(Tail(list))

\* json.dumps(list of strings), for strings that need no escape.
JsonDumps(list) == StrOpen \o JoinWith(StrCommaSpace, Quoted(list)) \o StrClose

InList(x, list) == \E i \in 1..Len(list) : list[i] = x

\* Truth value of an enrichment field during the merge.
IsSet(v) == v # NULL /\ v[1] # <<>>

IsLinkedin(url) == Contains(Lower(url), StrLinkedinIn)

IsGithub(url) == Contains(Lower(url), StrGithubPrefix)

IsTwitter(url) == Contains(Lower(url), StrTwitterCom) \/ Contains(Lower(url), StrXCom)

\* The enrichment dict before the loop over the results.
BlankEnrichment(user, results) ==
    [f \in EnrichFields \cup {"username"} |->
        IF f = "username" THEN user.username
        ELSE IF f = "other_urls" THEN <<>>
        ELSE IF f = "raw_response" THEN Some(results)   \* kept opaque
        ELSE IF f = "enriched_at" THEN Some(StrNow)
        ELSE NULL]

\* One turn of "for result in results.results".
MergeResult(e, result) ==
    LET title == IF IsSet(result.title) THEN result.title[1] ELSE <<>>
    IN  IF IsLinkedin(result.url) /\ ~ IsSet(e["linkedin_url"])
        THEN IF Contains(title, StrDash) /\ ~ IsSet(e["full_name"])
             THEN [e EXCEPT !["linkedin_url"] = Some(result.url),
                            !["full_name"] = Some(Strip(FirstSegment(title, StrDash)))]
             ELSE [e EXCEPT !["linkedin_url"] = Some(result.url)]
        ELSE IF IsGithub(result.url) /\ ~ IsSet(e["github_url"])
        THEN [e EXCEPT !["github_url"] = Some(result.url)]
        ELSE IF IsTwitter(result.url) /\ ~ IsSet(e["twitter_url"])
        THEN [e EXCEPT !["twitter_url"] = Some(result.url)]
        ELSE IF InList(result.url, e["other_urls"]) THEN e
        ELSE [e EXCEPT !["other_urls"] = Append(@, result.url)]

RECURSIVE MergeResults(_, _)
MergeResults(e, results) ==
    IF results = <<>> THEN e
    ELSE MergeResults(MergeResult(e, Head(results)), Tail(results))

\* enrich_user(exa_client, user): None, or the enrichment dict.
EnrichUser(user, resp) ==
    LET q == BuildSearchQuery(user)
    IN  IF q = NULL \/ q = Some(<<>>) THEN NULL
        ELSE IF resp.raises THEN NULL
        ELSE IF resp.results = <<>> THEN NULL
        ELSE LET e == MergeResults(BlankEnrichment(user, resp.results), resp.results)
             IN  Some([e EXCEPT !["other_urls"] = Some(JsonDumps(@))])

enrich_user ==
    /\ epc = "start"
    /\ query' = BuildSearchQuery(quser)
    /\ enr' = EnrichUser(quser, response)
    /\ epc' = "done"
    /\ UNCHANGED <<quser, qpc, response>>

EnrichIdle ==
    /\ response = [raises |-> FALSE, results |-> <<>>]
    /\ enr = NULL
    /\ epc = "idle"

\* The user rows enrich_user is given: one with a query, one without.
EnrichUsers ==
    { [username |-> StrAlice, about |-> NULL, github_username |-> Some(StrAlice),
       twitter_username |-> NULL, website |-> NULL],
      [username |-> StrBob, about |-> Some(Letters(15)), github_username |-> NULL,
       twitter_username |-> NULL, website |-> NULL] }

-----------------------------------------------------------------------------
(* scrape.py: parse_user_profile.  The profile document is given by what   *)
(* the searches of lines 53-85 locate in it (NULL when a search finds      *)
(* nothing) and by the href of every <a href=..>, in document order.       *)

\* The string literals of parse_user_profile and its patterns.
Lit ==
    [http |->
        <<"h", "t", "t", "p">>,
     scheme_http |->
        <<"h", "t", "t", "p", ":", "/", "/">>,
     scheme_https |->
        <<"h", "t", "t", "p", "s", ":", "/", "/">>,
     www |->
        <<"w", "w", "w", ".">>,
     github |->
        <<"g", "i", "t", "h", "u", "b", ".", "c", "o", "m">>,
     twitter |->
        <<"t", "w", "i", "t", "t", "e", "r", ".", "c", "o", "m">>,
     x |->
        <<"x", ".", "c", "o", "m">>,
     linkedin |->
        <<"l", "i", "n", "k", "e", "d", "i", "n", ".", "c", "o", "m">>,
     lobsters |->
        <<"l", "o", "b", "s", "t", "e", ".", "r", "s">>,
     reddit |->
        <<"r", "e", "d", "d", "i", "t", ".", "c", "o", "m">>,
     hn |->
        <<"n", "e", "w", "s", ".", "y", "c", "o", "m", "b", "i", "n", "a", "t",
          "o", "r", ".", "c", "o", "m">>,
     slash |->
        <<"/">>,
     tilde |->
        <<"/", "~">>,
     u |->
        <<"/", "u", "/">>]

\* The hrefs and texts the sample documents are made of.
Sample ==
    [github_ann |->
        <<"h", "t", "t", "p", "s", ":", "/", "/", "g", "i", "t", "h", "u", "b",
          ".", "c", "o", "m", "/", "a", "n", "n">>,
     github_bea |->
        <<"h", "t", "t", "p", ":", "/", "/", "w", "w", "w", ".", "g", "i", "t",
          "h", "u", "b", ".", "c", "o", "m", "/", "b", "e", "a", "/">>,
     github_repo |->
        <<"h", "t", "t", "p", "s", ":", "/", "/", "g", "i", "t", "h", "u", "b",
          ".", "c", "o", "m", "/", "a", "n", "n", "/", "r", "e", "p", "o">>,
     x_ann |->
        <<"h", "t", "t", "p", "s", ":", "/", "/", "x", ".", "c", "o", "m", "/",
          "a", "n", "n", "_", "1">>,
     twitter_bea |->
        <<"h", "t", "t", "p", "s", ":", "/", "/", "t", "w", "i", "t", "t", "e",
          "r", ".", "c", "o", "m", "/", "b", "e", "a">>,
     site_ann |->
        <<"h", "t", "t", "p", "s", ":", "/", "/", "a", "n", "n", ".", "d", "e",
          "v">>,
     site_bea |->
        <<"h", "t", "t", "p", "s", ":", "/", "/", "b", "e", "a", ".", "o", "r",
          "g", "/">>,
     inviter |->
        <<"/", "~", "r", "o", "o", "t">>,
     inviter_u |->
        <<"/", "u", "/", "r", "-", "t", "/", "t", "h", "r", "e", "a", "d", "s">>,
     date |->
        <<"2", "0", "2", "0", "-", "0", "1", "-", "0", "2">>,
     about |->
        <<" ", "r", "u", "s", "t", " ", "d", "e", "v", " ">>]

\* Links in one profile document.
MaxLinks == 3

\* [a-zA-Z0-9_]
WordChars ==
    { UpperChars[k] : k \in 1..Len(UpperChars) }
    \cup { LowerChars[k] : k \in 1..Len(LowerChars) }
    \cup {"0", "1", "2", "3", "4", "5", "6", "7", "8", "9"} \cup {"_"}

\* [a-zA-Z0-9_-]
NameChars == WordChars \cup {"-"}

StartsWith(str, pre) == Len(str) >= Len(pre) /\ SubSeq(str, 1, Len(pre)) = pre

\* The longest prefix of str made of the characters of class.
RECURSIVE Span(_, _)
Span(str, class) ==
    IF str = <<>> \/ Head(str) \notin class THEN <<>>
    ELSE <<Head(str)>> \o Span(Tail(str), class)

\* re.match(r"https?://(?:www\.)?(?:d1|d2)\.com/([class]+)/?$", href): the
\* group, or NULL when there is no match.  $ matches at the end of the
\* string and before a final newline.
ProfileMatch(href, domains, class) ==
    LET AtEnd(str) == str = <<>> \/ str = <<"\n">>
        heads == { sch \o w \o dom \o Lit.slash :
                     sch \in {Lit.scheme_http, Lit.scheme_https},
                     w \in {<<>>, Lit.www}, dom \in domains }
        hits == { h \in heads : StartsWith(href, h) }
    IN  IF hits = {} THEN NULL
        ELSE LET rest == SubSeq(href, Len(CHOOSE h \in hits : TRUE) + 1, Len(href))
                 seg == Span(rest, class)
                 tail == SubSeq(rest, Len(seg) + 1, Len(rest))
             IN  IF seg # <<>>
                    /\ (AtEnd(tail) \/ (StartsWith(tail, Lit.slash) /\ AtEnd(Tail(tail))))
                 THEN Some(seg) ELSE NULL

GhMatch(href) == ProfileMatch(href, {Lit.github}, NameChars)

TwMatch(href) == ProfileMatch(href, {Lit.twitter, Lit.x}, WordChars)

PlatformDomains ==
    {Lit.github, Lit.twitter, Lit.x, Lit.linkedin, Lit.lobsters,
     Lit.reddit, Lit.hn}

\* href.startswith("http") and not any(domain in href for domain in [...])
IsPersonalSite(href) ==
    StartsWith(href, Lit.http) /\ \A dom \in PlatformDomains : ~ Contains(href, dom)

\* re.match(r"^/(?:u/|~)([a-zA-Z0-9_-]+)", href): the group, or NULL.
InviterMatch(href) ==
    LET hits == { h \in {Lit.u, Lit.tilde} : StartsWith(href, h) }
    IN  IF hits = {} THEN NULL
        ELSE LET seg == Span(SubSeq(href, Len(CHOOSE h \in hits : TRUE) + 1, Len(href)),
                             NameChars)
             IN  IF seg # <<>> THEN Some(seg) ELSE NULL

\* One turn of "for link in soup.find_all("a", href=True)".
ProfileLink(data, href) ==
    LET gh == GhMatch(href)
        tw == TwMatch(href)
        d1 == IF gh # NULL THEN [data EXCEPT !["github_username"] = gh] ELSE data
        d2 == IF tw # NULL THEN [d1 EXCEPT !["twitter_username"] = tw] ELSE d1
    IN  IF IsPersonalSite(href) /\ d2["website"] = NULL
        THEN [d2 EXCEPT !["website"] = Some(href)] ELSE d2

RECURSIVE ProfileLinks(_, _)
ProfileLinks(data, hrefs) ==
    IF hrefs = <<>> THEN data
    ELSE ProfileLinks(ProfileLink(data, Head(hrefs)), Tail(hrefs))

\* The dict before the loop over the links: the keys of lines 53-85; a key
\* that is not in the dict is NULL here, as it is for upsert_user(**data).
ProfileBase(pg) ==
    [f \in UserFields |->
        IF f = "karma" THEN pg.karma
        ELSE IF f = "created_at" THEN pg.created_at
        ELSE IF f = "invited_by_username"
        THEN (IF pg.invited_by = NULL THEN NULL ELSE InviterMatch(pg.invited_by[1]))
        ELSE IF f = "about"
        THEN (IF pg.about = NULL THEN NULL ELSE Some(Strip(pg.about[1])))
        ELSE NULL]

\* parse_user_profile(html, username): the dict, as username and the rest.
ParseUserProfile(pg, username) ==
    [username |-> username,
     args |-> [ProfileLinks(ProfileBase(pg), pg.links) EXCEPT
                 !["scraped_at"] = Some(StrNow)]]

\* A document in which the searches of lines 53-85 find nothing, and one in
\* which each finds something.
BarePage(links) ==
    [karma |-> NULL, created_at |-> NULL, invited_by |-> NULL, about |-> NULL,
     links |-> links]

FullPage(links) ==
    [karma |-> Some(42), created_at |-> Some(Sample.date),
     invited_by |-> Some(Sample.inviter_u), about |-> Some(Sample.about), links |-> links]

\* The documents parse_user_profile is run on.
ProfilePages ==
    LET hrefs == {Sample.github_ann, Sample.github_bea, Sample.github_repo,
                  Sample.x_ann, Sample.twitter_bea, Sample.site_ann,
                  Sample.site_bea, Sample.inviter}
    IN  UNION { { BarePage(l), FullPage(l) } :
                  l \in UNION { [1..n -> hrefs] : n \in 0..MaxLinks } }

parse_user_profile ==
    /\ ppc = "start"
    /\ pdata' = Some(ParseUserProfile(page, "alice"))
    /\ ppc' = "done"
    /\ UNCHANGED page

-----------------------------------------------------------------------------
(* enrich.py: main.  Here the usernames of table users are character       *)
(* sequences, as build_search_query needs them.                            *)

\* dict(user), user a row of table users.
UserDict(table, username) ==
    [username |-> username,
     about |-> table[username]["about"],
     github_username |-> table[username]["github_username"],
     twitter_username |-> table[username]["twitter_username"],
     website |-> table[username]["website"]]

\* users[:max_users], applied only "if max_users".
Limit(list, max_users) ==
    IF max_users = NULL \/ max_users[1] = 0 THEN list
    ELSE SubSeq(list, 1, Min({Len(list), max_users[1]}))

\* The arguments of main and the environment.
BatchArgs ==
    [max_users : {NULL, Some(0), Some(1)}, dry_run : BOOLEAN, api_key : BOOLEAN]

\* What exa_client.search does for one user of the batch.
BatchResponses ==
    { [raises |-> TRUE, results |-> <<>>],
      [raises |-> FALSE, results |-> <<>>],
      [raises |-> FALSE,
       results |-> << [url |-> UrlLinkedinAnn, title |-> Some(TitleAnn)] >>],
      [raises |-> FALSE,
       results |-> << [url |-> UrlGithubAnn, title |-> NULL],
                      [url |-> UrlSite, title |-> NULL] >>] }

\* main() up to the loop: the API key test, get_users_for_enrichment, the
\* max_users limit and the dry run.
batch_start ==
    /\ bpc = "start"
    /\ IF ~ bargs.api_key /\ ~ bargs.dry_run
       THEN /\ bpc' = "done"
            /\ UNCHANGED <<eligible, calls, bpos>>
       ELSE /\ \E list \in EligibleLists(users, enrichment) :
                 eligible' = Limit(list, bargs.max_users)
            /\ calls' = calls + 1
            /\ bpc' = IF bargs.dry_run THEN "done" ELSE "loop"
            /\ bpos' = 1
    /\ UNCHANGED <<users, enrichment, nextId, lastSaved, prevEnrichment>>
    /\ UNCHANGED <<prevUsers, lastCall, bargs, attempted, counts>>

batch_iteration_abort ==
    /\ bpc = "loop"
    /\ bpos =< Len(eligible)
    /\ \E resp \in BatchResponses :
         LET e == EnrichUser(UserDict(users, eligible[bpos]), resp)
         IN  /\ IF e # NULL
                THEN /\ save_enrichment(eligible[bpos], [f \in EnrichFields |-> e[1][f]])
                     /\ counts' = <<counts[1] + 1, counts[2]>>
                     /\ bpc' = "loop"
                ELSE /\ counts' = <<counts[1], counts[2] + 1>>
                     /\ bpc' = "done"
                     /\ UNCHANGED <<enrichment, nextId, prevEnrichment, lastSaved, calls>>
             /\ attempted' = Append(attempted, [username |-> eligible[bpos],
                                                response |-> resp])
    /\ bpos' = bpos + 1
    /\ UNCHANGED <<users, eligible, prevUsers, lastCall, bargs>>

\* One turn of "for i, user in enumerate(users)".
batch_iteration ==
    /\ bpc = "loop"
    /\ bpos =< Len(eligible)
    /\ \E resp \in BatchResponses :
         LET e == EnrichUser(UserDict(users, eligible[bpos]), resp)
         IN  /\ IF e # NULL
                THEN /\ save_enrichment(eligible[bpos], [f \in EnrichFields |-> e[1][f]])
                     /\ counts' = <<counts[1] + 1, counts[2]>>
                ELSE /\ counts' = <<counts[1], counts[2] + 1>>
                     /\ UNCHANGED <<enrichment, nextId, prevEnrichment, lastSaved, calls>>
             /\ attempted' = Append(attempted, [username |-> eligible[bpos],
                                                response |-> resp])
    /\ bpos' = bpos + 1
    /\ UNCHANGED <<users, eligible, prevUsers, lastCall, bargs, bpc>>

\* The loop is over: the summary is printed and main returns.
batch_done ==
    /\ bpc = "loop"
    /\ bpos > Len(eligible)
    /\ bpc' = "done"
    /\ UNCHANGED <<storeVars, histVars, bargs, bpos, attempted, counts>>

\* Table users when the batch starts: some of three rows.
BatchStores ==
    LET rows ==
        [u \in {StrAlice, StrBob, <<"c", "a", "r", "o", "l">>} |->
            [f \in UserFields |->
                IF u = StrAlice
                THEN (IF f = "karma" THEN Some(10)
                      ELSE IF f = "github_username" THEN Some(StrAlice) ELSE NULL)
                ELSE IF u = StrBob
                THEN (IF f = "karma" THEN Some(5)
                      ELSE IF f = "about" THEN Some(Letters(15)) ELSE NULL)
                ELSE (IF f = "karma" THEN Some(7)
                      ELSE IF f = "website" THEN Some(StrSite) ELSE NULL)]]
    IN  { [u \in S |-> rows[u]] : S \in SUBSET DOMAIN rows }

-----------------------------------------------------------------------------
(* scrape.py: fetch_with_retry, one action per turn of its loop.  A        *)
(* response text is the empty sequence for "" and <<document>> otherwise.  *)

MAX_RETRIES == 3

RETRY_BACKOFF == 5

\* What requests.get does: it raises a RequestException, or returns a
\* response with a status code and a text.
FetchResponses ==
    { [raises |-> "", status |-> 200, text |-> t] :
        t \in { <<>>, <<BarePage(<<>>)>>,
                 <<FullPage(<<Sample.github_ann, Sample.site_ann>>)>> } }
    \cup { [raises |-> "", status |-> c, text |-> <<>>] : c \in {429, 403, 404, 500} }
    \cup { [raises |-> e, status |-> 0, text |-> <<>>] :
             e \in {"Timeout", "ConnectionError"} }

FetchStepRetryAny(att, r) ==
    IF r.raises # ""
    THEN [returns |-> FALSE, value |-> NULL,
          sleep |-> IF att < MAX_RETRIES - 1
                    THEN Some(RETRY_BACKOFF * (2 ^ att)) ELSE NULL]
    ELSE IF r.status = 200
    THEN [returns |-> TRUE, value |-> Some(r.text), sleep |-> NULL]
    ELSE [returns |-> FALSE, value |-> NULL,
          sleep |-> Some(RETRY_BACKOFF * (2 ^ att))]

\* The body of "for attempt in range(MAX_RETRIES)" after requests.get: does
\* the function return, what, and how long does it sleep before the next
\* turn.
FetchStep(att, r) ==
    IF r.raises # ""
    THEN [returns |-> FALSE, value |-> NULL,
          sleep |-> IF att < MAX_RETRIES - 1
                    THEN Some(RETRY_BACKOFF * (2 ^ att)) ELSE NULL]
    ELSE IF r.status = 200
    THEN [returns |-> TRUE, value |-> Some(r.text), sleep |-> NULL]
    ELSE IF r.status = 429
    THEN [returns |-> FALSE, value |-> NULL,
          sleep |-> Some(RETRY_BACKOFF * (2 ^ att))]
    ELSE [returns |-> TRUE, value |-> NULL, sleep |-> NULL]

\* One turn of the loop: the delay, the request, and what follows it.
fetch_attempt ==
    /\ fpc = "loop"
    /\ attempt < MAX_RETRIES
    /\ \E r \in FetchResponses :
         LET step == FetchStep(attempt, r)
         IN  /\ seen' = Append(seen, r)
             /\ backoffs' = IF step.sleep = NULL THEN backoffs
                             ELSE Append(backoffs, [attempt |-> attempt,
                                                    secs |-> step.sleep[1]])
             /\ IF step.returns
                THEN fret' = step.value /\ fpc' = "done" /\ attempt' = attempt
                ELSE fret' = fret /\ fpc' = fpc /\ attempt' = attempt + 1

\* The loop is over: return None.
fetch_exhausted ==
    /\ fpc = "loop"
    /\ attempt >= MAX_RETRIES
    /\ fret' = NULL
    /\ fpc' = "done"
    /\ UNCHANGED <<attempt, seen, backoffs>>

-----------------------------------------------------------------------------
(* scrape.py: scrape_user and main.  A turn of the main loop is the test   *)
(* of the stored row, then fetch_with_retry turn by turn, then the parse   *)
(* and the upsert_user call.                                               *)

\* Runs of scrape.py in one behaviour.
MaxRuns == 2

\* "if html": the fetch returned a text that is not empty.
HasHtml(html) == html # NULL /\ html[1] # <<>>

\* scrape_user(username), given what fetch_with_retry returned: the dict of
\* parse_user_profile, or None.
ScrapeUser(username, html) ==
    IF HasHtml(html) THEN Some(ParseUserProfile(html[1][1], username)) ELSE NULL

AlreadyKnown(table, username) == username \in DOMAIN table

\* existing = get_user(username); existing and existing["scraped_at"]
AlreadyScraped(table, username) ==
    username \in DOMAIN table /\ TruthyStr(table[username]["scraped_at"])

\* main() up to the loop: without users_page.html it returns; else the
\* usernames of the file, each once, in the order list(set(...)) gives.
scrape_start ==
    /\ spc = "start"
    /\ \/ /\ spc' = "done"
          /\ UNCHANGED <<usernames, spos>>
       \/ /\ usernames' \in { l \in [1..Cardinality(Usernames) -> Usernames] :
                                \A i, j \in DOMAIN l : l[i] = l[j] => i = j }
          /\ spos' = 1
          /\ spc' = "loop"
    /\ UNCHANGED <<storeVars, histVars, fetchVars, run, lastIter>>

\* A turn of the loop up to the fetch: skip the user, or call scrape_user.
scrape_next ==
    /\ spc = "loop"
    /\ spos =< Len(usernames)
    /\ IF AlreadyScraped(users, usernames[spos])
       THEN /\ spos' = spos + 1
            /\ lastIter' = [username |-> usernames[spos], run |-> run,
                            fetched |-> FALSE, html |-> NULL]
            /\ UNCHANGED <<spc, fetchVars>>
       ELSE /\ spc' = "fetch"
            /\ fpc' = "loop"
            /\ attempt' = 0
            /\ seen' = <<>>
            /\ backoffs' = <<>>
            /\ fret' = NULL
            /\ UNCHANGED <<spos, lastIter>>
    /\ UNCHANGED <<storeVars, histVars, usernames, run>>

\* The rest of the turn, once fetch_with_retry has returned: the parse and
\* the upsert_user call of either branch.
scrape_store ==
    /\ spc = "fetch"
    /\ fpc = "done"
    /\ LET user_data == ScrapeUser(usernames[spos], fret)
       IN  IF user_data # NULL
           THEN upsert_user(user_data[1].username, user_data[1].args)
           ELSE upsert_user(usernames[spos], Args({}, 1))
    /\ lastIter' = [username |-> usernames[spos], run |-> run,
                    fetched |-> TRUE, html |-> fret]
    /\ spos' = spos + 1
    /\ spc' = "loop"
    /\ fpc' = "idle"
    /\ attempt' = 0
    /\ seen' = <<>>
    /\ backoffs' = <<>>
    /\ fret' = NULL
    /\ UNCHANGED <<enrichment, nextId, lastSaved, prevEnrichment, eligible>>
    /\ UNCHANGED <<usernames, run>>

\* The loop is over and main returns.
scrape_done ==
    /\ spc = "loop"
    /\ spos > Len(usernames)
    /\ spc' = "done"
    /\ UNCHANGED <<storeVars, histVars, fetchVars, usernames, spos, run, lastIter>>

\* scrape.py is run again.
scrape_again ==
    /\ spc = "done"
    /\ run < MaxRuns
    /\ run' = run + 1
    /\ spc' = "start"
    /\ usernames' = <<>>
    /\ spos' = 0
    /\ UNCHANGED <<storeVars, histVars, fetchVars, lastIter>>

\* Table users before the first run: empty, or with the row parse_tree.py
\* writes for a user.
ScrapeStores ==
    { <<>>, [u \in {"alice"} |-> Args({"karma", "invited_by_username"}, 2)] }

-----------------------------------------------------------------------------
(* The parts of the program that have not started. *)

ProfileIdle ==
    /\ page = <<>>
    /\ pdata = NULL
    /\ ppc = "idle"

FetchIdle ==
    /\ attempt = 0
    /\ seen = <<>>
    /\ backoffs = <<>>
    /\ fret = NULL
    /\ fpc = "idle"

ScrapeIdle ==
    /\ usernames = <<>>
    /\ spos = 0
    /\ run = 0
    /\ lastIter = <<>>
    /\ spc = "idle"

BatchIdle ==
    /\ bargs = <<>>
    /\ bpos = 0
    /\ attempted = <<>>
    /\ counts = <<0, 0>>
    /\ bpc = "idle"

MoreIdle == ProfileIdle /\ FetchIdle /\ ScrapeIdle /\ BatchIdle

TreeIdle ==
    /\ doc = <<>>
    /\ facts = <<>>
    /\ tpc = "idle"
    /\ idx = 0
    /\ pass = 0
    /\ firstPass = <<>>

-----------------------------------------------------------------------------
(* Spec: the users table under arbitrary upsert_user calls. *)

Init == StoreInit /\ TreeIdle /\ QueryIdle /\ EnrichIdle /\ MoreIdle

UpsertAny ==
    /\ calls < MaxCalls
    /\ \E u \in Usernames, a \in UserArgs : upsert_user(u, a)
    /\ UNCHANGED <<enrichment, nextId, lastSaved, prevEnrichment, eligible>>
    /\ UNCHANGED <<treeVars, queryVars, enrichVars, moreVars>>

Next == UpsertAny

Spec == Init /\ [][Next]_vars

-----------------------------------------------------------------------------
(* SpecStore: both tables under upsert_user, save_enrichment and           *)
(* get_users_for_enrichment calls in any order.                            *)

\* upsert_user calls that set or leave out what get_users_for_enrichment reads.
SignalArgs ==
    { Args({}, 1), Args({"karma", "invited_by_username"}, 1),
      Args({"karma", "about"}, 1), Args({"karma", "about"}, 2),
      Args({"github_username"}, 1), Args({"twitter_username"}, 2),
      Args({"website"}, 2) }

StoreUpsert ==
    /\ calls < MaxCalls
    /\ \E u \in Usernames, a \in SignalArgs : upsert_user(u, a)
    /\ UNCHANGED <<enrichment, nextId, lastSaved, prevEnrichment, eligible>>
    /\ UNCHANGED <<treeVars, queryVars, enrichVars, moreVars>>

StoreSave ==
    /\ calls < MaxCalls
    /\ \E u \in Usernames, c \in EnrichArgs : save_enrichment(u, c)
    /\ UNCHANGED <<users, eligible, prevUsers, lastCall>>
    /\ UNCHANGED <<treeVars, queryVars, enrichVars, moreVars>>

StoreQuery ==
    /\ calls < MaxCalls
    /\ get_users_for_enrichment
    /\ UNCHANGED <<users, enrichment, nextId, lastSaved, prevEnrichment>>
    /\ UNCHANGED <<prevUsers, lastCall>>
    /\ UNCHANGED <<treeVars, queryVars, enrichVars, moreVars>>

NextStore == StoreUpsert \/ StoreSave \/ StoreQuery

SpecStore == Init /\ [][NextStore]_vars

-----------------------------------------------------------------------------
(* SpecQuery: build_search_query on every user row of QueryUsers. *)

InitQuery ==
    /\ StoreInit
    /\ TreeIdle
    /\ quser \in QueryUsers
    /\ query = NULL
    /\ qpc = "start"
    /\ EnrichIdle
    /\ MoreIdle

NextQuery ==
    build_search_query /\ UNCHANGED <<storeVars, histVars, treeVars, enrichVars, moreVars>>

SpecQuery == InitQuery /\ [][NextQuery]_vars

-----------------------------------------------------------------------------
(* SpecEnrich: enrich_user on every response within the bounds. *)

InitEnrich ==
    /\ StoreInit
    /\ TreeIdle
    /\ quser \in EnrichUsers
    /\ query = NULL
    /\ qpc = "idle"
    /\ response \in Responses
    /\ enr = NULL
    /\ epc = "start"
    /\ MoreIdle

NextEnrich == enrich_user /\ UNCHANGED <<storeVars, histVars, treeVars, moreVars>>

SpecEnrich == InitEnrich /\ [][NextEnrich]_vars

-----------------------------------------------------------------------------
(* SpecProfile: parse_user_profile on every document within the bounds. *)

InitProfile ==
    /\ StoreInit
    /\ TreeIdle
    /\ QueryIdle
    /\ EnrichIdle
    /\ page \in ProfilePages
    /\ pdata = NULL
    /\ ppc = "start"
    /\ FetchIdle
    /\ ScrapeIdle
    /\ BatchIdle

NextProfile ==
    /\ parse_user_profile
    /\ UNCHANGED <<storeVars, histVars, treeVars, queryVars, enrichVars>>
    /\ UNCHANGED <<fetchVars, scrapeVars, batchVars>>

SpecProfile == InitProfile /\ [][NextProfile]_vars

-----------------------------------------------------------------------------
(* SpecBatch: enrich.py main() on every store of BatchStores, under every  *)
(* outcome of the searches.  The loop is a sequential program: a step that *)
(* is enabled is taken.                                                    *)

InitBatch ==
    /\ users \in BatchStores
    /\ enrichment = {}
    /\ nextId = 1
    /\ lastSaved = <<>>
    /\ prevEnrichment = {}
    /\ eligible = <<>>
    /\ calls = 0
    /\ prevUsers = <<>>
    /\ lastCall = NoCall
    /\ TreeIdle
    /\ QueryIdle
    /\ EnrichIdle
    /\ ProfileIdle
    /\ FetchIdle
    /\ ScrapeIdle
    /\ bargs \in BatchArgs
    /\ bpos = 0
    /\ attempted = <<>>
    /\ counts = <<0, 0>>
    /\ bpc = "start"

NextBatch ==
    \/ batch_start
         /\ UNCHANGED <<treeVars, queryVars, enrichVars, profileVars, fetchVars, scrapeVars>>
    \/ batch_iteration
         /\ UNCHANGED <<treeVars, queryVars, enrichVars, profileVars, fetchVars, scrapeVars>>
    \/ batch_done
         /\ UNCHANGED <<treeVars, queryVars, enrichVars, profileVars, fetchVars, scrapeVars>>

SpecBatch == InitBatch /\ [][NextBatch]_vars /\ WF_vars(NextBatch)

-----------------------------------------------------------------------------
(* SpecFetch: one call of fetch_with_retry under every sequence of         *)
(* responses.  The function is a sequential program: a step that is        *)
(* enabled is taken.                                                       *)

InitFetch ==
    /\ StoreInit
    /\ TreeIdle
    /\ QueryIdle
    /\ EnrichIdle
    /\ ProfileIdle
    /\ attempt = 0
    /\ seen = <<>>
    /\ backoffs = <<>>
    /\ fret = NULL
    /\ fpc = "loop"
    /\ ScrapeIdle
    /\ BatchIdle

NextFetch ==
    \/ fetch_attempt
         /\ UNCHANGED <<storeVars, histVars, treeVars, queryVars, enrichVars>>
         /\ UNCHANGED <<profileVars, scrapeVars, batchVars>>
    \/ fetch_exhausted
         /\ UNCHANGED <<storeVars, histVars, treeVars, queryVars, enrichVars>>
         /\ UNCHANGED <<profileVars, scrapeVars, batchVars>>

SpecFetch == InitFetch /\ [][NextFetch]_vars /\ WF_vars(NextFetch)

-----------------------------------------------------------------------------
(* SpecScrape: runs of scrape.py main(), under every sequence of responses *)
(* to every fetch.                                                         *)

InitScrape ==
    /\ users \in ScrapeStores
    /\ enrichment = {}
    /\ nextId = 1
    /\ lastSaved = <<>>
    /\ prevEnrichment = {}
    /\ eligible = <<>>
    /\ calls = 0
    /\ prevUsers = <<>>
    /\ lastCall = NoCall
    /\ TreeIdle
    /\ QueryIdle
    /\ EnrichIdle
    /\ ProfileIdle
    /\ FetchIdle
    /\ usernames = <<>>
    /\ spos = 0
    /\ run = 1
    /\ lastIter = <<>>
    /\ spc = "start"
    /\ BatchIdle

NextScrape ==
    \/ scrape_start
         /\ UNCHANGED <<treeVars, queryVars, enrichVars, profileVars, batchVars>>
    \/ scrape_next
         /\ UNCHANGED <<treeVars, queryVars, enrichVars, profileVars, batchVars>>
    \/ fetch_attempt
         /\ UNCHANGED <<storeVars, histVars, scrapeVars>>
         /\ UNCHANGED <<treeVars, queryVars, enrichVars, profileVars, batchVars>>
    \/ fetch_exhausted
         /\ UNCHANGED <<storeVars, histVars, scrapeVars>>
         /\ UNCHANGED <<treeVars, queryVars, enrichVars, profileVars, batchVars>>
    \/ scrape_store
         /\ UNCHANGED <<treeVars, queryVars, enrichVars, profileVars, batchVars>>
    \/ scrape_done
         /\ UNCHANGED <<treeVars, queryVars, enrichVars, profileVars, batchVars>>
    \/ scrape_again
         /\ UNCHANGED <<treeVars, queryVars, enrichVars, profileVars, batchVars>>

SpecScrape == InitScrape /\ [][NextScrape]_vars

-----------------------------------------------------------------------------
(* The claims about upsert_user. *)

\* C1 as stated: once a stored field is non-null, no later upsert_user changes
\* it (the first known value wins).
C1_NeverOverwrites ==
    [][\A u \in DOMAIN users : \A f \in UserFields :
          users[u][f] # NULL => users'[u][f] = users[u][f]]_vars

\* C1, amended: a stored non-null field never becomes null again, and an
\* upsert_user that provides a non-null value for it stores the provided
\* value (the last non-null value wins); a null argument leaves it unchanged.
C1_LastNonNullWins ==
    calls > 0 =>
        LET u == lastCall.username
            a == lastCall.args
        IN  u \in DOMAIN prevUsers =>
                \A f \in UserFields :
                    prevUsers[u][f] # NULL =>
                        /\ users[u][f] # NULL
                        /\ users[u][f] = (IF a[f] # NULL THEN a[f] ELSE prevUsers[u][f])

\* A call has replaced a stored non-null value by a different non-null one.
C1_Witness ==
    /\ calls > 0
    /\ lastCall.username \in DOMAIN prevUsers
    /\ \E f \in UserFields :
          LET old == prevUsers[lastCall.username][f]
              new == lastCall.args[f]
          IN  /\ old # NULL /\ new # NULL /\ new # old
              /\ users[lastCall.username][f] = new

\* C2: the coalesce law.  A null argument leaves the stored field as it was, a
\* non-null argument fills a stored null, an absent username is created with
\* exactly the given fields, and no other row changes.
C2_CoalesceLaw ==
    calls > 0 =>
        LET u == lastCall.username
            a == lastCall.args
        IN  /\ DOMAIN users = DOMAIN prevUsers \cup {u}
            /\ \A v \in DOMAIN prevUsers \ {u} : users[v] = prevUsers[v]
            /\ u \notin DOMAIN prevUsers => users[u] = a
            /\ u \in DOMAIN prevUsers =>
                  \A f \in UserFields :
                      /\ a[f] = NULL => users[u][f] = prevUsers[u][f]
                      /\ (a[f] # NULL /\ prevUsers[u][f] = NULL) => users[u][f] = a[f]

\* One call on a stored row both kept a non-null field against a null
\* argument and filled a null field.
C2_Witness ==
    /\ calls > 0
    /\ lastCall.username \in DOMAIN prevUsers
    /\ \E f, g \in UserFields :
          /\ lastCall.args[f] = NULL
          /\ prevUsers[lastCall.username][f] # NULL
          /\ users[lastCall.username][f] = prevUsers[lastCall.username][f]
          /\ lastCall.args[g] # NULL
          /\ prevUsers[lastCall.username][g] = NULL
          /\ users[lastCall.username][g] = lastCall.args[g]

-----------------------------------------------------------------------------
(* parse_tree.py: the nested user tree.                                    *)
(*                                                                         *)
(* The document is the sequence of its <li> elements in document order,    *)
(* each with its nesting depth: the <li>s of the main <ul class=user_tree> *)
(* have depth 1, those of the nested <ul class=user_tree> directly inside  *)
(* an <li> of depth n have depth n + 1.  An <li> holds at most one anchor  *)
(* as a direct child, then its own text, then at most one nested <ul>.     *)
(* The text is a sequence of tokens: a word, or a number in parentheses.   *)
(* A match of the karma pattern is a word token equal to the username      *)
(* followed by a number token.                                             *)

\* <li> elements in a document.
MaxLis == 3

NameTok(w) == [name |-> w, num |-> 0 - 1]

NumTok(n) == [name |-> "", num |-> n]

\* <a name=.. href="/~.." class=..>; NULL stands for an attribute that is
\* absent (for href: absent, or not starting with /~).
Anchor(name, href, inactive) == [name |-> name, href |-> href, inactive |-> inactive]

NoAnchor == Anchor(NULL, NULL, FALSE)

\* The <li> elements the documents are made of.
LiKinds ==
    { [a |-> Anchor(Some("root"), Some("root"), FALSE),
       text |-> <<NameTok("root"), NumTok(100)>>],
      [a |-> Anchor(Some("root"), Some("root"), FALSE),
       text |-> <<NameTok("root")>>],
      [a |-> Anchor(Some("child"), Some("child"), TRUE),
       text |-> <<NameTok("child"), NumTok(5)>>],
      [a |-> Anchor(NULL, Some("child"), FALSE),
       text |-> <<NameTok("child"), NumTok(5)>>],
      [a |-> Anchor(Some("root"), Some("child"), FALSE),
       text |-> <<NameTok("root"), NumTok(100)>>],
      [a |-> Anchor(Some("root"), NULL, FALSE),
       text |-> <<NameTok("root"), NumTok(100)>>],
      [a |-> Anchor(Some("child"), NULL, FALSE),
       text |-> <<NameTok("child"), NumTok(5)>>],
      [a |-> NoAnchor, text |-> <<NameTok("root"), NumTok(7)>>],
      [a |-> NoAnchor, text |-> <<>>] }

\* The nesting depths of n <li>s in document order.
Shapes(n) ==
    { s \in [1..n -> 1..n] :
        \A i \in 1..n : IF i = 1 THEN s[i] = 1 ELSE s[i] =< s[i - 1] + 1 }

DocsOf(kinds, maxLis) ==
    UNION { { [i \in 1..n |-> [depth |-> s[i], a |-> k[i].a, text |-> k[i].text]] :
                s \in Shapes(n), k \in [1..n -> kinds] } : n \in 0..maxLis }

\* The last element of the subtree of <li> i.
SubtreeEnd(d, i) ==
    Max({ j \in i..Len(d) : \A k \in (i + 1)..j : d[k].depth > d[i].depth })

\* nested_ul.find_all("li", recursive=False), nested_ul the <ul> directly
\* inside <li> i.
ChildrenAll(d, i) == (i + 1)..SubtreeEnd(d, i)

Children(d, i) ==
    { j \in (i + 1)..SubtreeEnd(d, i) : d[j].depth = d[i].depth + 1 }

\* main_tree.find_all("li", recursive=False)
TopLevel(d) == { j \in 1..Len(d) : d[j].depth = 1 }

RECURSIVE Ascending(_)
Ascending(S) ==
    IF S = {} THEN <<>> ELSE <<Min(S)>> \o Ascending(S \ {Min(S)})

\* li_element.find("a", href=^/~, recursive=False), and failing that
\* li_element.find("a", href=^/~): the first such anchor among all the
\* descendants, those inside the nested lists included.
FindLinkAnyAnchor(d, i) ==
    IF d[i].a # NoAnchor THEN Some(d[i].a) ELSE NULL

FindLink(d, i) ==
    IF d[i].a.href # NULL THEN Some(d[i].a)
    ELSE LET below == { j \in (i + 1)..SubtreeEnd(d, i) : d[j].a.href # NULL }
         IN  IF below = {} THEN NULL ELSE Some(d[Min(below)].a)

\* link.get("name") or link["href"].replace("/~", "")
LinkUsername(a) ==
    IF a.name # NULL /\ a.name[1] # "" THEN a.name[1] ELSE a.href[1]

\* li_element.get_text(): the text of the element and of all its descendants,
\* in document order.
RECURSIVE TextFrom(_, _, _)
TextFrom(d, i, j) ==
    IF i > j THEN <<>> ELSE d[i].text \o TextFrom(d, i + 1, j)

GetText(d, i) == TextFrom(d, i, SubtreeEnd(d, i))

\* re.search(username \s* \( (\d+) \), li_text): the first match, else 0.
KarmaOf(username, text) ==
    LET hits == { p \in 1..(Len(text) - 1) :
                    text[p] = NameTok(username) /\ text[p + 1].num >= 0 }
    IN  IF hits = {} THEN 0 ELSE text[Min(hits) + 1].num

RECURSIVE ParseLi(_, _, _), ParseLis(_, _, _)

\* parse_li(li_element, parent_username): the facts it appends to users.
ParseLi(d, i, parent) ==
    LET link == FindLink(d, i)
    IN  IF link = NULL THEN <<>>
        ELSE LET username == LinkUsername(link[1])
             IN  << [username |-> username,
                     karma |-> KarmaOf(username, GetText(d, i)),
                     invited_by_username |-> parent,
                     is_inactive |-> link[1].inactive] >>
                 \o ParseLis(d, Ascending(Children(d, i)), Some(username))

\* for child_li in ...: parse_li(child_li, parent_username)
ParseLis(d, js, parent) ==
    IF js = <<>> THEN <<>>
    ELSE ParseLi(d, Head(js), parent) \o ParseLis(d, Tail(js), parent)

ParseUsersTree(d) == ParseLis(d, Ascending(TopLevel(d)), NULL)

\* main(): users = parse_users_tree(html)
parse_users_tree ==
    /\ tpc = "start"
    /\ facts' = ParseUsersTree(doc)
    /\ tpc' = "parsed"
    /\ idx' = 1
    /\ UNCHANGED <<doc, pass, firstPass>>

\* upsert_user(username=.., karma=.., invited_by_username=..)
FactArgs(fact) ==
    [f \in UserFields |->
        IF f = "karma" THEN Some(fact.karma)
        ELSE IF f = "invited_by_username" THEN fact.invited_by_username
        ELSE NULL]

\* main(): one turn of "for i, user in enumerate(users): upsert_user(...)"
InsertFact ==
    /\ tpc = "parsed"
    /\ idx =< Len(facts)
    /\ upsert_user(facts[idx].username, FactArgs(facts[idx]))
    /\ idx' = idx + 1
    /\ UNCHANGED <<enrichment, nextId, lastSaved, prevEnrichment, eligible>>
    /\ UNCHANGED <<doc, facts, tpc, pass, firstPass>>
    /\ UNCHANGED <<queryVars, enrichVars, moreVars>>

\* main(): the loop is over and main returns.
MainDone ==
    /\ tpc = "parsed"
    /\ idx > Len(facts)
    /\ tpc' = "done"
    /\ firstPass' = IF pass = 1 THEN users ELSE firstPass
    /\ UNCHANGED <<storeVars, histVars>>
    /\ UNCHANGED <<doc, facts, idx, pass>>
    /\ UNCHANGED <<queryVars, enrichVars, moreVars>>

\* The script is run again on the same users.html.
RunAgain ==
    /\ tpc = "done"
    /\ pass = 1
    /\ pass' = 2
    /\ tpc' = "start"
    /\ facts' = <<>>
    /\ idx' = 0
    /\ UNCHANGED <<storeVars, histVars>>
    /\ UNCHANGED <<doc, firstPass>>
    /\ UNCHANGED <<queryVars, enrichVars, moreVars>>

-----------------------------------------------------------------------------
(* SpecTree: parse_users_tree on every document within the bounds. *)

InitTree ==
    /\ StoreInit
    /\ doc \in DocsOf(LiKinds, MaxLis)
    /\ facts = <<>>
    /\ tpc = "start"
    /\ idx = 0
    /\ pass = 1
    /\ firstPass = <<>>
    /\ QueryIdle
    /\ EnrichIdle
    /\ MoreIdle

NextTree == parse_users_tree /\ UNCHANGED <<storeVars, histVars, queryVars, enrichVars, moreVars>>

SpecTree == InitTree /\ [][NextTree]_vars

-----------------------------------------------------------------------------
(* SpecIngest: parse_tree.py main() run twice on the same document, from a *)
(* store that is empty or already holds a row.                             *)

\* <li> elements in a document that is ingested.
MaxIngestLis == 3

IngestKinds ==
    { [a |-> Anchor(Some("root"), Some("root"), FALSE),
       text |-> <<NameTok("root"), NumTok(100)>>],
      [a |-> Anchor(Some("root"), Some("root"), FALSE),
       text |-> <<NameTok("root")>>],
      [a |-> Anchor(Some("child"), Some("child"), TRUE),
       text |-> <<NameTok("child"), NumTok(5)>>] }

InitialStores ==
    { <<>> } \cup
    { [u \in {name} |-> a] : name \in {"root", "child"}, a \in UserArgs }

InitIngest ==
    /\ users \in InitialStores
    /\ enrichment = {}
    /\ nextId = 1
    /\ lastSaved = <<>>
    /\ prevEnrichment = {}
    /\ eligible = <<>>
    /\ calls = 0
    /\ prevUsers = <<>>
    /\ lastCall = NoCall
    /\ doc \in DocsOf(IngestKinds, MaxIngestLis)
    /\ facts = <<>>
    /\ tpc = "start"
    /\ idx = 0
    /\ pass = 1
    /\ firstPass = <<>>
    /\ QueryIdle
    /\ EnrichIdle
    /\ MoreIdle

NextIngest ==
    \/ parse_users_tree /\ UNCHANGED <<storeVars, histVars, queryVars, enrichVars, moreVars>>
    \/ InsertFact
    \/ MainDone
    \/ RunAgain

SpecIngest == InitIngest /\ [][NextIngest]_vars

-----------------------------------------------------------------------------
(* The claims about parse_users_tree. *)

\* Every <li> has, as a direct child, an anchor with a link target /~name.
WellFormed(d) == \A i \in 1..Len(d) : d[i].a.href # NULL

\* The username an entry shows: its anchor's name, else its link target.
EntryName(li) == IF li.a.name # NULL THEN li.a.name[1] ELSE li.a.href[1]

\* The username of the nearest enclosing entry, NULL at the top level.
Encloser(d, i) ==
    IF d[i].depth = 1 THEN NULL
    ELSE Some(EntryName(d[Max({ j \in 1..(i - 1) : d[j].depth = d[i].depth - 1 })]))

Occurrences(seq, P(_)) == Cardinality({ k \in 1..Len(seq) : P(seq[k]) })

\* C4: on a well-formed tree the fact list is the list of the entries in
\* document pre-order: entry i gives fact i, with the entry's username and
\* the username of its nearest enclosing entry as inviter (NULL at the top
\* level), so every username occurs in the facts as often as in the markup
\* (once, when the markup names it once).
C4_PreOrderFacts ==
    (tpc = "parsed" /\ WellFormed(doc)) =>
        /\ Len(facts) = Len(doc)
        /\ \A i \in 1..Len(doc) :
              /\ facts[i].username = EntryName(doc[i])
              /\ facts[i].invited_by_username = Encloser(doc, i)
        /\ \A u \in {"root", "child"} :
              LET InFact(f) == f.username = u
                  InDoc(li) == EntryName(li) = u
              IN  Occurrences(facts, InFact) = Occurrences(doc, InDoc)

\* A well-formed tree three levels deep has been parsed.
C4_Witness ==
    /\ tpc = "parsed"
    /\ WellFormed(doc)
    /\ Len(doc) = 3
    /\ doc[3].depth = 3
    /\ facts[3].invited_by_username = Some(EntryName(doc[2]))
    /\ facts[2].invited_by_username = Some(EntryName(doc[1]))
    /\ facts[1].invited_by_username = NULL

\* The example of the specification:
\* <ul class="user_tree"><li><a name="root">root</a> (100)
\*   <ul class="user_tree"><li><a name="child">child</a> (5)</li></ul></li></ul>
ExampleTree ==
    << [depth |-> 1, a |-> Anchor(Some("root"), NULL, FALSE),
        text |-> <<NameTok("root"), NumTok(100)>>],
       [depth |-> 2, a |-> Anchor(Some("child"), NULL, FALSE),
        text |-> <<NameTok("child"), NumTok(5)>>] >>

ExampleFacts ==
    << [username |-> "root", karma |-> 100, invited_by_username |-> NULL,
        is_inactive |-> FALSE],
       [username |-> "child", karma |-> 5, invited_by_username |-> Some("root"),
        is_inactive |-> FALSE] >>

\* C5 as stated: an anchor with a name and no link target still yields a
\* fact, and the example tree yields (root, 100, null), (child, 5, root).
C5_NameOnlyYieldsFact ==
    tpc = "parsed" =>
        /\ doc = ExampleTree => facts = ExampleFacts
        /\ \A i \in 1..Len(doc) :
              (doc[i].a.name # NULL /\ doc[i].a.href = NULL) =>
                  \E k \in 1..Len(facts) : facts[k].username = doc[i].a.name[1]

\* C5, amended: only an anchor with a link target /~name is an entry's link;
\* the username is that anchor's name attribute if it has one, else its link
\* target.  A tree whose anchors have no link target yields no fact at all:
\* the example tree yields the empty list.
C5_LinkTargetRequired ==
    tpc = "parsed" =>
        /\ doc = ExampleTree => facts = <<>>
        /\ (\A i \in 1..Len(doc) : doc[i].a.href = NULL) => facts = <<>>
        /\ \A k \in 1..Len(facts) :
              \E i \in 1..Len(doc) :
                  /\ doc[i].a.href # NULL
                  /\ facts[k].username = EntryName(doc[i])
                  /\ facts[k].is_inactive = doc[i].a.inactive

\* The example tree has been parsed, to the empty list.
C5_Witness == tpc = "parsed" /\ doc = ExampleTree /\ facts = <<>>

\* An <li> with no extractable username: parse_li finds no link in it.
Malformed(d, i) == FindLink(d, i) = NULL

\* The document without <li> i (and what it contains).
Remove(d, i) ==
    LET e == SubtreeEnd(d, i)
    IN  [k \in 1..(Len(d) - (e - i + 1)) |-> IF k < i THEN d[k] ELSE d[k + (e - i + 1)]]

\* C6: a malformed entry is skipped, and the facts of the rest of the
\* document are those of the document without the entry.
C6_MalformedIsNoise ==
    tpc = "parsed" =>
        \A i \in 1..Len(doc) :
            Malformed(doc, i) => facts = ParseUsersTree(Remove(doc, i))

\* What does hold of a malformed entry: the parse returns, and the facts are
\* those of the document without the entry up to the karma of the entries
\* that enclose it.
SameButKarma(fs, gs) ==
    /\ Len(fs) = Len(gs)
    /\ \A k \in 1..Len(fs) : [fs[k] EXCEPT !.karma = 0] = [gs[k] EXCEPT !.karma = 0]

C6_MalformedKeepsNames ==
    tpc = "parsed" =>
        \A i \in 1..Len(doc) :
            Malformed(doc, i) => SameButKarma(facts, ParseUsersTree(Remove(doc, i)))

-----------------------------------------------------------------------------
(* The claim about re-ingestion. *)

\* C3: when main() has run a second time on the same document the users
\* table is what it was after the first run, whatever the store held before
\* and however often a username occurs in the facts; and repeating the
\* upsert_user call of any fact changes nothing the first call has not.
C3_ReingestIdempotent ==
    /\ (tpc = "done" /\ pass = 2) => users = firstPass
    /\ \A k \in 1..Len(facts) :
          LET once == UpsertUser(users, facts[k].username, FactArgs(facts[k]))
          IN  UpsertUser(once, facts[k].username, FactArgs(facts[k])) = once

\* The second run is over, of facts that name one username twice with two
\* different inviters, on a store that held a row before the first run.
C3_Witness ==
    /\ tpc = "done"
    /\ pass = 2
    /\ users = firstPass
    /\ calls = 2 * Len(facts)
    /\ \E j, k \in 1..Len(facts) :
          /\ j < k
          /\ facts[j].username = facts[k].username
          /\ facts[j].invited_by_username # NULL
          /\ facts[k].invited_by_username # NULL
          /\ facts[j].invited_by_username # facts[k].invited_by_username
    /\ \E u \in DOMAIN users : users[u]["about"] # NULL

-----------------------------------------------------------------------------
(* The claims about the enrichment table. *)

RowsOf(table, username) == { r \in table : r.username = username }

\* C7: the enrichment table never holds two rows of one username, and the
\* row of a username holds exactly the fields of the last save_enrichment
\* call for it: a field that call gave as null is null in the row.
C7_FullOverwrite ==
    /\ \A u \in Usernames : Cardinality(RowsOf(enrichment, u)) =< 1
    /\ \A u \in Usernames :
          Cardinality(RowsOf(enrichment, u)) = (IF u \in DOMAIN lastSaved THEN 1 ELSE 0)
    /\ \A u \in DOMAIN lastSaved :
          \A r \in RowsOf(enrichment, u) : r.cols = lastSaved[u]
    /\ \A r, q \in enrichment : r.id = q.id => r = q

\* A username was saved again with a field null that its row held before:
\* the field is null now, and the row kept its id.
C7_Witness ==
    \E u \in DOMAIN lastSaved :
        \E old \in RowsOf(prevEnrichment, u), new \in RowsOf(enrichment, u) :
            /\ old.id = new.id
            /\ old.cols # new.cols
            /\ \E f \in EnrichFields :
                  old.cols[f] # NULL /\ lastSaved[u][f] = NULL /\ new.cols[f] = NULL

\* C8: get_users_for_enrichment returns exactly the stored users that have no
\* enrichment row and have a non-empty about or a github_username, a
\* twitter_username or a website; so a username save_enrichment has stored a
\* row for is not returned in any later state.
C8_Eligibility ==
    /\ \A u \in Usernames :
          u \in EligibleSet(users, enrichment) <=>
              /\ u \in DOMAIN users
              /\ RowsOf(enrichment, u) = {}
              /\ \/ TruthyStr(users[u]["about"])
                 \/ users[u]["github_username"] # NULL
                 \/ users[u]["twitter_username"] # NULL
                 \/ users[u]["website"] # NULL
    /\ \A l \in EligibleLists(users, enrichment) :
          /\ { l[i] : i \in 1..Len(l) } = EligibleSet(users, enrichment)
          /\ \A u \in DOMAIN lastSaved : \A i \in 1..Len(l) : l[i] # u

\* A user that carries a signal was returned, has been enriched since, and is
\* returned no more.
C8_Witness ==
    /\ Len(eligible) = 1
    /\ eligible[1] \in DOMAIN lastSaved
    /\ eligible[1] \in DOMAIN users
    /\ HasSignal(users[eligible[1]])
    /\ RowsOf(enrichment, eligible[1]) # {}
    /\ EligibleSet(users, enrichment) = {}

-----------------------------------------------------------------------------
(* The claim about build_search_query. *)

\* The user's only signal is a github_username.
OnlyGithub(user) ==
    /\ TruthyStr(user.github_username)
    /\ ~ TruthyStr(user.twitter_username)
    /\ ~ TruthyStr(user.website)

\* C9 as stated: for a user whose only signal is the github_username g the
\* query is "github.com/<g> software engineer developer".
C9_GithubOnlyQualified ==
    (qpc = "built" /\ OnlyGithub(quser)) =>
        query = Some(StrGithubPrefix \o quser.github_username[1] \o StrQualifier)

\* C9, amended: for a user whose only signal is the github_username g the
\* query is "github.com/<g>", without the qualifier; the qualifier is appended
\* to a single term only if the term holds none of "github", "twitter", "@"
\* in any case of letters, as for a website that names none of them; two or
\* more terms are joined by spaces and nothing is appended.
C9_GithubOnlyUnqualified ==
    qpc = "built" =>
        /\ OnlyGithub(quser) =>
              query = Some(StrGithubPrefix \o quser.github_username[1])
        /\ ( /\ ~ TruthyStr(quser.github_username)
             /\ ~ TruthyStr(quser.twitter_username)
             /\ TruthyStr(quser.website) ) =>
              query = Some(IF quser.website[1] = StrSite
                           THEN StrSite \o StrQualifier
                           ELSE quser.website[1])
        /\ (TruthyStr(quser.github_username) /\ TruthyStr(quser.twitter_username)
             /\ ~ TruthyStr(quser.website)) =>
              query = Some(StrGithubPrefix \o quser.github_username[1]
                           \o StrSpace \o StrAt \o quser.twitter_username[1])

\* build_search_query has returned "github.com/alice" for the user whose only
\* signal is github_username = "alice".
C9_Witness ==
    /\ qpc = "built"
    /\ OnlyGithub(quser)
    /\ quser.github_username = Some(StrAlice)
    /\ quser.about = NULL
    /\ query = Some(StrGithubPrefix \o StrAlice)

-----------------------------------------------------------------------------
(* The claim about the merge of enrich_user. *)

MatchesNoPattern(url) == ~ IsLinkedin(url) /\ ~ IsGithub(url) /\ ~ IsTwitter(url)

\* url is one of the entries of the serialized list.
Listed(url, dumped) == Contains(dumped, StrQuote \o url \o StrQuote)

\* C10: a candidate of a category that is filled already is dropped:
\* other_urls holds no url that matches one of the LinkedIn, GitHub and
\* Twitter/X patterns, so a second LinkedIn profile is not listed in it.
C10_DuplicatesDropped ==
    (epc = "done" /\ enr # NULL) =>
        \A i \in 1..Len(response.results) :
            ~ MatchesNoPattern(response.results[i].url) =>
                ~ Listed(response.results[i].url, enr[1]["other_urls"][1])

-----------------------------------------------------------------------------
(* The claim about the shape of the reconstruction. *)

\* The pairs <<username, inviter>> of the facts that name an inviter.
InvitedBy(fs) ==
    { <<fs[i].username, fs[i].invited_by_username[1]>> :
        i \in { j \in 1..Len(fs) : fs[j].invited_by_username # NULL } }

FactNames(fs) == { fs[i].username : i \in 1..Len(fs) }

\* Following the inviter links from some username leads back to it; a fact
\* that names itself as inviter is the cycle of length one.
HasCycle(fs) ==
    \E k \in 1..Cardinality(FactNames(fs)) :
        \E p \in [1..k -> FactNames(fs)] :
            \A i \in 1..k : <<p[i], p[(i % k) + 1]>> \in InvitedBy(fs)

\* C13: for every document the facts form a forest: no fact names itself as
\* inviter, and the inviter links between facts form no cycle.
C13_Forest ==
    (tpc = "parsed") =>
        /\ \A i \in 1..Len(facts) :
              facts[i].invited_by_username # Some(facts[i].username)
        /\ ~ HasCycle(facts)

\* The same for the documents in which every <li> has its own link and no
\* username occurs twice.
C13_ForestWhenDistinct ==
    (/\ tpc = "parsed"
     /\ WellFormed(doc)
     /\ \A i, j \in 1..Len(doc) : EntryName(doc[i]) = EntryName(doc[j]) => i = j) =>
        ~ HasCycle(facts)

-----------------------------------------------------------------------------
(* The claim about the links of a profile. *)

\* The group of the first href that Match matches, NULL when none does.
FirstMatch(hrefs, Match(_)) ==
    LET hits == { i \in 1..Len(hrefs) : Match(hrefs[i]) # NULL }
    IN  IF hits = {} THEN NULL ELSE Match(hrefs[Min(hits)])

LastMatch(hrefs, Match(_)) ==
    LET hits == { i \in 1..Len(hrefs) : Match(hrefs[i]) # NULL }
    IN  IF hits = {} THEN NULL ELSE Match(hrefs[Max(hits)])

\* C11: github_username is the path segment of the first link that matches
\* the github.com pattern and twitter_username that of the first
\* twitter.com/x.com match; a later match never overwrites a field.
C11_FirstMatchWins ==
    (ppc = "done") =>
        /\ pdata[1].args["github_username"] = FirstMatch(page.links, GhMatch)
        /\ pdata[1].args["twitter_username"] = FirstMatch(page.links, TwMatch)

\* What the loop computes: the last match of each pattern; the website is
\* the first personal site.
C11_LastMatchWins ==
    (ppc = "done") =>
        /\ pdata[1].args["github_username"] = LastMatch(page.links, GhMatch)
        /\ pdata[1].args["twitter_username"] = LastMatch(page.links, TwMatch)
        /\ pdata[1].args["website"] =
              FirstMatch(page.links,
                         LAMBDA h : IF IsPersonalSite(h) THEN Some(h) ELSE NULL)


-----------------------------------------------------------------------------
(* The claim about the enrichment batch. *)

\* The search for the user of an entry of attempted gave candidates.
SearchSucceeded(a) ==
    /\ BuildSearchQuery(UserDict(users, a.username)) # NULL
    /\ ~ a.response.raises
    /\ a.response.results # <<>>

\* The loop of main is reached: not a dry run, and the API key is set.
LoopRuns == bpc # "idle" /\ bargs.api_key /\ ~ bargs.dry_run

\* At every moment the loop has handled the users before its position, in
\* the order of the list, and each has a record exactly if its search
\* succeeded.
IsolatedSoFar ==
    LoopRuns =>
        /\ Len(attempted) = Max({bpos - 1, 0})
        /\ \A i \in 1..Len(attempted) :
              /\ attempted[i].username = eligible[i]
              /\ HasEnrichment(enrichment, eligible[i]) <=> SearchSucceeded(attempted[i])
        /\ bpc = "done" => Len(attempted) = Len(eligible)

\* C12: the enrichment loop handles every user of its list in order and runs
\* to the end, whatever searches fail or come back empty; a user whose
\* search failed or gave nothing has no record, and every user whose search
\* succeeded has its record saved, those after a failure included.
C12_FailureIsolation == [] IsolatedSoFar /\ <>(bpc = "done")

\* A run that ended after a failed search for one user and a saved record
\* for a later one.
C12_Witness ==
    /\ LoopRuns
    /\ bpc = "done"
    /\ \E i, j \in 1..Len(attempted) :
         /\ i < j
         /\ attempted[i].response.raises
         /\ BuildSearchQuery(UserDict(users, attempted[i].username)) # NULL
         /\ SearchSucceeded(attempted[j])
         /\ HasEnrichment(enrichment, attempted[j].username)
         /\ ~ HasEnrichment(enrichment, attempted[i].username)


-----------------------------------------------------------------------------
(* The claim about fetch_with_retry. *)

RateLimited(r) == r.raises = "" /\ r.status = 429

Retried(r) == r.raises # "" \/ RateLimited(r)

\* The requests made so far and what has been returned agree with the
\* retry rules.
FetchWithinBounds ==
    (fpc # "idle") =>
        /\ Len(seen) =< MAX_RETRIES
        /\ \A i \in 1..(Len(seen) - 1) : Retried(seen[i])
        /\ \A i \in 1..Len(seen) :
              RateLimited(seen[i]) =>
                  \E k \in 1..Len(backoffs) :
                      backoffs[k] = [attempt |-> i - 1,
                                     secs |-> IF i = 1 THEN 5 ELSE IF i = 2 THEN 10 ELSE 20]
        /\ \A k \in 1..Len(backoffs) : Retried(seen[backoffs[k].attempt + 1])
        /\ fpc = "loop" => fret = NULL /\ \A i \in 1..Len(seen) : Retried(seen[i])
        /\ fpc = "done" =>
              /\ seen # <<>>
              /\ LET last == seen[Len(seen)]
                 IN  IF Retried(last)
                     THEN Len(seen) = MAX_RETRIES /\ fret = NULL
                     ELSE IF last.status = 200 THEN fret = Some(last.text)
                     ELSE fret = NULL

\* C14: fetch_with_retry makes at most MAX_RETRIES requests and always
\* returns: the text on the first 200, no data at once on a status other
\* than 200 and 429, another attempt only after a 429 (after 5, 10, 20
\* seconds) or a request exception, and no data when the attempts are used
\* up.
C14_BoundedRetry == [] FetchWithinBounds /\ <>(fpc = "done")

\* Three rate-limited attempts, then no data.
C14_Witness ==
    /\ fpc = "done"
    /\ fret = NULL
    /\ Len(seen) = MAX_RETRIES
    /\ \A i \in 1..Len(seen) : RateLimited(seen[i])
    /\ backoffs = << [attempt |-> 0, secs |-> 5], [attempt |-> 1, secs |-> 10],
                     [attempt |-> 2, secs |-> 20] >>


-----------------------------------------------------------------------------
(* The claim about the scrape loop. *)

\* The stored scraped_at of username is null: no row, or a null column.
NotYetScraped(table, username) ==
    username \notin DOMAIN table \/ table[username]["scraped_at"] = NULL

\* What holds in every state of the runs: a fetch is under way only for a
\* user whose scraped_at is null; after a turn whose fetch gave a document
\* the user's scraped_at is set; after a turn whose fetch failed the user has
\* a row, and table users is what it was, but for the new row of nulls when
\* the user had none.
ResumableState ==
    /\ spc = "fetch" => NotYetScraped(users, usernames[spos])
    /\ (lastIter # <<>> /\ lastIter.fetched) =>
          IF HasHtml(lastIter.html)
          THEN ~ NotYetScraped(users, lastIter.username)
          ELSE /\ lastIter.username \in DOMAIN users
               /\ NotYetScraped(users, lastIter.username)
               /\ \A u \in DOMAIN prevUsers : users[u] = prevUsers[u]
               /\ \A u \in DOMAIN users \ DOMAIN prevUsers :
                     u = lastIter.username /\ \A f \in UserFields : users[u][f] = NULL

\* What holds of every step: a scraped_at that is set stays as it is; the
\* loop skips a user exactly if scraped_at is set and fetches it otherwise,
\* in every run; and when a fetch is over, failed or not, the loop goes on
\* with the next username.
ResumableStep ==
    /\ \A u \in DOMAIN users :
          ~ NotYetScraped(users, u) =>
              u \in DOMAIN users' /\ users'[u]["scraped_at"] = users[u]["scraped_at"]
    /\ (spc = "loop" /\ spos =< Len(usernames)) =>
          IF NotYetScraped(users, usernames[spos])
          THEN spc' = "fetch" /\ spos' = spos
          ELSE spc' = "loop" /\ spos' = spos + 1 /\ users' = users
    /\ (spc = "fetch" /\ spc' # "fetch") =>
          spc' = "loop" /\ spos' = spos + 1 /\ usernames' = usernames

\* C15: in every run a username is fetched only if its stored scraped_at is
\* null; a fetch that gives a document sets scraped_at, and the user is
\* skipped from then on; a failed fetch creates the row if there is none and
\* changes no stored field, so the user is fetched again in the next run,
\* and the run goes on with the next username.
C15_Resumable == [] ResumableState /\ [][ResumableStep]_vars

\* The second run fetches a user whose fetch failed in the first run, which
\* created its row of nulls.
C15_Witness ==
    /\ run = 2
    /\ spc = "fetch"
    /\ usernames[spos] \in DOMAIN users
    /\ \A f \in UserFields : users[usernames[spos]][f] = NULL

====
